---- MODULE Spec2Model ----
(***************************************************************************)
(* The progressive binary search tree of src/rust/base/type.rs:            *)
(*   Stage 2/3  TreeNode with Option<Box<TreeNode>> children, insert, find *)
(*   Stage 5/6  Node = Rc<RefCell<TreeNode>>, insert, find                 *)
(*   Stage 7    inorder over Option<Node>                                  *)
(* A tree is an arena: a sequence of nodes in creation order, node 1 the   *)
(* root, a child slot holding a node's index or None.  Every RefCell has a *)
(* borrow flag: 0 unborrowed, k > 0 shared k times, -1 mutably borrowed;   *)
(* the Box program has no cells, and no flags.                             *)
(***************************************************************************)
EXTENDS Integers, Sequences, FiniteSets, TLC

VARIABLES stage, edition, tree, flag, calls, last, outs, panicked

vars == <<stage, edition, tree, flag, calls, last, outs, panicked>>

\* Bounds of the model.
MaxVal == 3
MaxNodes == 4
MaxExt == 1
MaxRuns == 2

Vals == 1..MaxVal

\* Stage 3 is the Box program, Stage 6 (with Stage 7's inorder) the Rc<RefCell> one.
Stages == {3, 6}

\* The source names no edition (no Cargo.toml): a build is of an edition before
\* 2024 or of 2024, and the two differ in when an `if let` scrutinee's
\* temporaries are dropped.
Editions == {2021, 2024}

\* Option::None in a child slot.
None == 0

Nodes(t) == 1..Len(t)

----------------------------------------------------------------------------
\* new that ignores its argument and stores a fixed value.
newFixed(val) == [val |-> 1, left |-> None, right |-> None]

\* TreeNode::new: a node with both child slots None.
new(val) == [val |-> val, left |-> None, right |-> None]

\* Attach that sets the new node in the other slot too when that is None.
AttachBoth(t, n, side, val) ==
    LET other == IF side = "left" THEN "right" ELSE "left"
        m == Len(t) + 1
    IN  IF t[n][other] = None
        THEN [Append(t, new(val)) EXCEPT ![n].left = m, ![n].right = m]
        ELSE [Append(t, new(val)) EXCEPT ![n][side] = m]

\* Attach that also assigns the value to the node it attaches under.
AttachOverwrite(t, n, side, val) ==
    [Append(t, new(val)) EXCEPT ![n][side] = Len(t) + 1, ![n].val = val]

\* Attach that writes the node's own handle into its child slot.
AttachSelf(t, n, side, val) ==
    [Append(t, new(val)) EXCEPT ![n][side] = n]

\* Attach that sets the new node in the slot of the other side.
AttachOther(t, n, side, val) ==
    [Append(t, new(val)) EXCEPT
        ![n][IF side = "left" THEN "right" ELSE "left"] = Len(t) + 1]

\* self.left = Some(Box::new(TreeNode::new(val))) / node.borrow_mut().left =
\* Some(TreeNode::new(val)): the new node is allocated and the slot set to it.
Attach(t, n, side, val) ==
    [Append(t, new(val)) EXCEPT ![n][side] = Len(t) + 1]

\* Side with the comparison turned round: a greater value is sent left.
SideGt(t, n, val) == IF val > t[n].val THEN "left" ELSE "right"

\* Side with `<=` for `<`: an equal value is sent left.
SideLe(t, n, val) == IF val <= t[n].val THEN "left" ELSE "right"

\* The side insert and find descend to: `if val < self.val { left } else { right }`.
Side(t, n, val) == IF val < t[n].val THEN "left" ELSE "right"

----------------------------------------------------------------------------
\* Stage 3, Box.

\* Stage3_insert that stops at a node holding the value and adds nothing.
RECURSIVE Stage3_insertOnce(_, _, _)
Stage3_insertOnce(t, n, val) ==
    LET side == Side(t, n, val)
    IN  IF val = t[n].val THEN t
        ELSE IF t[n][side] # None
        THEN Stage3_insertOnce(t, t[n][side], val)
        ELSE Attach(t, n, side, val)

\* Stage3_insert without the match on the slot: it assigns the root's slot
\* whatever it holds.
Stage3_insertShallow(t, n, val) == Attach(t, n, Side(t, n, val), val)

RECURSIVE Stage3_insert(_, _, _)
Stage3_insert(t, n, val) ==
    LET side == Side(t, n, val)
    IN  IF t[n][side] # None
        THEN Stage3_insert(t, t[n][side], val)
        ELSE Attach(t, n, side, val)

\* Stage3_find that gives up on the right: `false` for the right-hand map_or.
RECURSIVE Stage3_findLeft(_, _, _)
Stage3_findLeft(t, n, val) ==
    IF val = t[n].val THEN TRUE
    ELSE IF val < t[n].val /\ t[n].left # None
         THEN Stage3_findLeft(t, t[n].left, val)
         ELSE FALSE

RECURSIVE Stage3_find(_, _, _)
Stage3_find(t, n, val) ==
    IF val = t[n].val THEN TRUE
    ELSE LET side == Side(t, n, val)
         IN  IF t[n][side] = None THEN FALSE
             ELSE Stage3_find(t, t[n][side], val)

----------------------------------------------------------------------------
\* RefCell: borrow() panics when the cell is mutably borrowed, borrow_mut()
\* when it is borrowed in any way; dropping the guard gives the borrow back.
CanBorrow(f, n) == f[n] >= 0
CanBorrowMut(f, n) == f[n] = 0
Borrowed(f, n) == [f EXCEPT ![n] = @ + 1]
Released(f, n) == [f EXCEPT ![n] = @ - 1]
BorrowedMut(f, n) == [f EXCEPT ![n] = -1]
ReleasedMut(f, n) == [f EXCEPT ![n] = 0]

\* The flags as borrow_mut() in the else branch of
\* `if let Some(ref x) = node.borrow().left { .. } else { .. }` finds them:
\* the scrutinee's Ref is dropped before the else block from edition 2024 on,
\* and at the end of the whole `if let` before.
ElseFlags(held, n, ed) == IF ed >= 2024 THEN Released(held, n) ELSE held

\* The flags once the `if let` is over (or unwound): before edition 2024 the
\* scrutinee's Ref is dropped only here.
AfterIfLet(f, n, ed) == IF ed >= 2024 THEN f ELSE Released(f, n)

\* Stage6_insert that stops at a node holding the value and adds nothing.
RECURSIVE Stage6_insertOnce(_, _, _, _, _)
Stage6_insertOnce(t, f, n, val, ed) ==
    IF ~CanBorrow(f, n)
    THEN [tree |-> t, flag |-> f, panicked |-> TRUE, mutSeen |-> <<>>]
    ELSE IF val = t[n].val
    THEN [tree |-> t, flag |-> f, panicked |-> FALSE, mutSeen |-> <<>>]
    ELSE LET side == Side(t, n, val)
             held == Borrowed(f, n)
         IN  IF t[n][side] # None
             THEN LET r == Stage6_insertOnce(t, held, t[n][side], val, ed)
                  IN  [r EXCEPT !.flag = Released(@, n)]
             ELSE LET atMut == ElseFlags(held, n, ed)
                  IN  IF ~CanBorrowMut(atMut, n)
                      THEN [tree |-> t, flag |-> AfterIfLet(atMut, n, ed),
                            panicked |-> TRUE, mutSeen |-> <<atMut[n]>>]
                      ELSE [tree |-> Attach(t, n, side, val),
                            flag |-> AfterIfLet(Append(atMut, 0), n, ed),
                            panicked |-> FALSE,
                            mutSeen |-> <<atMut[n]>>]

\* Stage6_insert that reads val and the slots past the cell's borrow check
\* (as through as_ptr()); only borrow_mut() is checked.
RECURSIVE Stage6_insertUnchecked(_, _, _, _, _)
Stage6_insertUnchecked(t, f, n, val, ed) ==
    LET side == Side(t, n, val)
    IN  IF t[n][side] # None
        THEN Stage6_insertUnchecked(t, f, t[n][side], val, ed)
        ELSE IF ~CanBorrowMut(f, n)
             THEN [tree |-> t, flag |-> f, panicked |-> TRUE, mutSeen |-> <<f[n]>>]
             ELSE [tree |-> Attach(t, n, side, val), flag |-> Append(f, 0),
                   panicked |-> FALSE, mutSeen |-> <<f[n]>>]

\* Stage6_insert without the `if let` on the slot: it assigns the root's
\* slot whatever it holds.
Stage6_insertShallow(t, f, n, val, ed) ==
    IF ~CanBorrowMut(f, n)
    THEN [tree |-> t, flag |-> f, panicked |-> TRUE, mutSeen |-> <<f[n]>>]
    ELSE [tree |-> Attach(t, n, Side(t, n, val), val), flag |-> Append(f, 0),
          panicked |-> FALSE, mutSeen |-> <<f[n]>>]

\* Stage 6, Rc<RefCell>.  The result is the tree, the flags once every guard
\* of the call is dropped (by return or by unwinding), whether the call
\* panicked, and the flag borrow_mut() found on the node it was called on.
RECURSIVE Stage6_insert(_, _, _, _, _)
Stage6_insert(t, f, n, val, ed) ==
    IF ~CanBorrow(f, n)
    THEN [tree |-> t, flag |-> f, panicked |-> TRUE, mutSeen |-> <<>>]
    ELSE LET side == Side(t, n, val)
             held == Borrowed(f, n)
         IN  IF t[n][side] # None
             THEN LET r == Stage6_insert(t, held, t[n][side], val, ed)
                  IN  [r EXCEPT !.flag = Released(@, n)]
             ELSE LET atMut == ElseFlags(held, n, ed)
                  IN  IF ~CanBorrowMut(atMut, n)
                      THEN [tree |-> t, flag |-> AfterIfLet(atMut, n, ed),
                            panicked |-> TRUE, mutSeen |-> <<atMut[n]>>]
                      ELSE LET written == Append(BorrowedMut(atMut, n), 0)
                               dropped == ReleasedMut(written, n)
                           IN  [tree |-> Attach(t, n, side, val),
                                flag |-> AfterIfLet(dropped, n, ed),
                                panicked |-> FALSE,
                                mutSeen |-> <<atMut[n]>>]

\* Stage6_find with map_or(true, ..): an absent child slot counts as found.
RECURSIVE Stage6_findTrue(_, _, _, _)
Stage6_findTrue(t, f, n, val) ==
    IF ~CanBorrow(f, n)
    THEN [ret |-> FALSE, flag |-> f, panicked |-> TRUE]
    ELSE IF val = t[n].val
         THEN [ret |-> TRUE, flag |-> f, panicked |-> FALSE]
         ELSE LET side == Side(t, n, val)
              IN  IF t[n][side] = None
                  THEN [ret |-> TRUE, flag |-> f, panicked |-> FALSE]
                  ELSE LET r == Stage6_findTrue(t, Borrowed(f, n), t[n][side], val)
                       IN  [r EXCEPT !.flag = Released(@, n)]

\* Stage6_find that compares with the node it is called on and never
\* descends: false for both map_or calls.
Stage6_findRoot(t, f, n, val) ==
    IF ~CanBorrow(f, n)
    THEN [ret |-> FALSE, flag |-> f, panicked |-> TRUE]
    ELSE [ret |-> val = t[n].val, flag |-> f, panicked |-> FALSE]

\* Stage6_find that reads the node through borrow_mut().
RECURSIVE Stage6_findMut(_, _, _, _)
Stage6_findMut(t, f, n, val) ==
    IF ~CanBorrowMut(f, n)
    THEN [ret |-> FALSE, flag |-> f, panicked |-> TRUE]
    ELSE IF val = t[n].val
         THEN [ret |-> TRUE, flag |-> f, panicked |-> FALSE]
         ELSE LET side == Side(t, n, val)
              IN  IF t[n][side] = None
                  THEN [ret |-> FALSE, flag |-> f, panicked |-> FALSE]
                  ELSE LET r == Stage6_findMut(t, BorrowedMut(f, n), t[n][side], val)
                       IN  [r EXCEPT !.flag = ReleasedMut(@, n)]

RECURSIVE Stage6_find(_, _, _, _)
Stage6_find(t, f, n, val) ==
    IF ~CanBorrow(f, n)
    THEN [ret |-> FALSE, flag |-> f, panicked |-> TRUE]
    ELSE IF val = t[n].val
         THEN [ret |-> TRUE, flag |-> f, panicked |-> FALSE]
         ELSE LET side == Side(t, n, val)
                  held == Borrowed(f, n)
              IN  IF t[n][side] = None
                  THEN [ret |-> FALSE, flag |-> Released(held, n), panicked |-> FALSE]
                  ELSE LET r == Stage6_find(t, held, t[n][side], val)
                       IN  [r EXCEPT !.flag = Released(@, n)]

\* Stage7_inorder with print! moved before the left subtree (a preorder).
RECURSIVE Stage7_preorder(_, _, _, _)
Stage7_preorder(t, f, n, out) ==
    IF n = None THEN [out |-> out, flag |-> f, panicked |-> FALSE]
    ELSE IF ~CanBorrow(f, n) THEN [out |-> out, flag |-> f, panicked |-> TRUE]
    ELSE LET l == Stage7_preorder(t, Borrowed(f, n), t[n].left, Append(out, t[n].val))
             f1 == Released(l.flag, n)
         IN  IF l.panicked THEN [l EXCEPT !.flag = f1]
             ELSE LET r == Stage7_preorder(t, Borrowed(f1, n), t[n].right, l.out)
                  IN  [r EXCEPT !.flag = Released(@, n)]

\* Stage7_inorder without its third statement: the right subtree is skipped.
RECURSIVE Stage7_inorderLeft(_, _, _, _)
Stage7_inorderLeft(t, f, n, out) ==
    IF n = None THEN [out |-> out, flag |-> f, panicked |-> FALSE]
    ELSE IF ~CanBorrow(f, n) THEN [out |-> out, flag |-> f, panicked |-> TRUE]
    ELSE LET l == Stage7_inorderLeft(t, Borrowed(f, n), t[n].left, out)
             f1 == Released(l.flag, n)
         IN  IF l.panicked THEN [l EXCEPT !.flag = f1]
             ELSE [out |-> Append(l.out, t[n].val), flag |-> f1, panicked |-> FALSE]

\* Stage7_inorder that keeps the Ref of its third statement alive when it
\* returns (as with mem::forget): the node stays borrowed.
RECURSIVE Stage7_inorderHeld(_, _, _, _)
Stage7_inorderHeld(t, f, n, out) ==
    IF n = None THEN [out |-> out, flag |-> f, panicked |-> FALSE]
    ELSE IF ~CanBorrow(f, n) THEN [out |-> out, flag |-> f, panicked |-> TRUE]
    ELSE LET l == Stage7_inorderHeld(t, Borrowed(f, n), t[n].left, out)
             f1 == Released(l.flag, n)
         IN  IF l.panicked THEN [l EXCEPT !.flag = f1]
             ELSE Stage7_inorderHeld(t, Borrowed(f1, n), t[n].right,
                                     Append(l.out, t[n].val))

\* Stage 7.  `out` is what print! has written so far.
RECURSIVE Stage7_inorder(_, _, _, _)
Stage7_inorder(t, f, n, out) ==
    IF n = None THEN [out |-> out, flag |-> f, panicked |-> FALSE]
    ELSE IF ~CanBorrow(f, n) THEN [out |-> out, flag |-> f, panicked |-> TRUE]
    ELSE LET l == Stage7_inorder(t, Borrowed(f, n), t[n].left, out)
             f1 == Released(l.flag, n)
         IN  IF l.panicked THEN [l EXCEPT !.flag = f1]
             ELSE LET printed == Append(l.out, t[n].val)
                      r == Stage7_inorder(t, Borrowed(f1, n), t[n].right, printed)
                  IN  [r EXCEPT !.flag = Released(@, n)]

----------------------------------------------------------------------------
\* The last call made on the tree.
Call(op, arg, ret, mutSeen) ==
    [op |-> op, arg |-> arg, ret |-> ret, mutSeen |-> mutSeen]

\* let root = TreeNode::new(val), of either program, under either edition.
Init ==
    /\ stage \in Stages
    /\ edition \in Editions
    /\ \E v \in Vals : /\ tree = <<new(v)>>
                       /\ last = Call("new", v, FALSE, <<>>)
    /\ flag = IF stage = 6 THEN <<0>> ELSE <<>>
    /\ calls = <<>>
    /\ outs = <<>>
    /\ panicked = FALSE

\* root.insert(val), Stage 3.
BoxInsert(v) ==
    /\ stage = 3
    /\ ~panicked
    /\ Len(tree) < MaxNodes
    /\ tree' = Stage3_insert(tree, 1, v)
    /\ calls' = Append(calls, v)
    /\ last' = Call("insert", v, FALSE, <<>>)
    /\ outs' = <<>>
    /\ UNCHANGED <<stage, edition, flag, panicked>>

\* root.find(val), Stage 3.
BoxFind(v) ==
    /\ stage = 3
    /\ ~panicked
    /\ last' = Call("find", v, Stage3_find(tree, 1, v), <<>>)
    /\ UNCHANGED <<stage, edition, tree, flag, calls, outs, panicked>>

\* TreeNode::insert(&root, val), Stage 6.
RcInsert(v) ==
    /\ stage = 6
    /\ ~panicked
    /\ Len(tree) < MaxNodes
    /\ LET r == Stage6_insert(tree, flag, 1, v, edition)
       IN  /\ tree' = r.tree
           /\ flag' = r.flag
           /\ panicked' = r.panicked
           /\ calls' = IF r.panicked THEN calls ELSE Append(calls, v)
           /\ last' = Call("insert", v, FALSE, r.mutSeen)
    /\ outs' = <<>>
    /\ UNCHANGED <<stage, edition>>

\* RcFind as a find-or-insert: a miss attaches the value.
RcFindOrInsert(v) ==
    /\ stage = 6
    /\ ~panicked
    /\ LET r == Stage6_find(tree, flag, 1, v)
           w == Stage6_insert(tree, flag, 1, v, edition)
           miss == ~r.panicked /\ ~r.ret /\ ~w.panicked /\ Len(tree) < MaxNodes
       IN  /\ flag' = IF miss THEN w.flag ELSE r.flag
           /\ tree' = IF miss THEN w.tree ELSE tree
           /\ panicked' = r.panicked
           /\ last' = Call("find", v, r.ret, <<>>)
    /\ UNCHANGED <<stage, edition, calls, outs>>

\* TreeNode::find(&root, val), Stage 6.
RcFind(v) ==
    /\ stage = 6
    /\ ~panicked
    /\ LET r == Stage6_find(tree, flag, 1, v)
       IN  /\ flag' = r.flag
           /\ panicked' = r.panicked
           /\ last' = Call("find", v, r.ret, <<>>)
    /\ UNCHANGED <<stage, edition, tree, calls, outs>>

\* Inorder that takes the root's left child out of its slot (Option::take)
\* once it has visited the tree.
InorderTake ==
    /\ stage = 6
    /\ ~panicked
    /\ Len(outs) < MaxRuns
    /\ LET r == Stage7_inorder(tree, flag, 1, <<>>)
       IN  /\ flag' = r.flag
           /\ panicked' = r.panicked
           /\ outs' = IF r.panicked THEN outs ELSE Append(outs, r.out)
           /\ last' = Call("inorder", 0, FALSE, <<>>)
           /\ tree' = IF r.panicked THEN tree ELSE [tree EXCEPT ![1].left = None]
    /\ UNCHANGED <<stage, edition, calls>>

\* TreeNode::inorder(&Some(root)), Stage 7.
Inorder ==
    /\ stage = 6
    /\ ~panicked
    /\ Len(outs) < MaxRuns
    /\ LET r == Stage7_inorder(tree, flag, 1, <<>>)
       IN  /\ flag' = r.flag
           /\ panicked' = r.panicked
           /\ outs' = IF r.panicked THEN outs ELSE Append(outs, r.out)
           /\ last' = Call("inorder", 0, FALSE, <<>>)
    /\ UNCHANGED <<stage, edition, tree, calls>>

\* The borrows outstanding on the cells.
RECURSIVE Outstanding(_, _)
Outstanding(f, n) ==
    IF n = 0 THEN 0
    ELSE (IF f[n] < 0 THEN 1 ELSE f[n]) + Outstanding(f, n - 1)

\* An alias of a node (a clone of its Rc) outside the tree takes a shared
\* borrow of it, takes a mutable borrow of it, or drops a guard it holds.
ExtBorrow(n) ==
    /\ stage = 6
    /\ ~panicked
    /\ Outstanding(flag, Len(flag)) < MaxExt
    /\ CanBorrow(flag, n)
    /\ flag' = Borrowed(flag, n)
    /\ UNCHANGED <<stage, edition, tree, calls, last, outs, panicked>>

ExtBorrowMut(n) ==
    /\ stage = 6
    /\ ~panicked
    /\ Outstanding(flag, Len(flag)) < MaxExt
    /\ CanBorrowMut(flag, n)
    /\ flag' = BorrowedMut(flag, n)
    /\ UNCHANGED <<stage, edition, tree, calls, last, outs, panicked>>

ExtDrop(n) ==
    /\ stage = 6
    /\ ~panicked
    /\ flag[n] # 0
    /\ flag' = IF flag[n] < 0 THEN ReleasedMut(flag, n) ELSE Released(flag, n)
    /\ UNCHANGED <<stage, edition, tree, calls, last, outs, panicked>>

\* The program as its main drives it: the root is the only handle, and no
\* guard outlives the call that took it.
Next ==
    \/ \E v \in Vals : BoxInsert(v)
    \/ \E v \in Vals : BoxFind(v)
    \/ \E v \in Vals : RcInsert(v)
    \/ \E v \in Vals : RcFind(v)
    \/ Inorder

Spec == Init /\ [][Next]_vars

\* The program with aliases of its nodes held, and borrowed from, outside.
NextAliased ==
    \/ \E v \in Vals : BoxInsert(v)
    \/ \E v \in Vals : BoxFind(v)
    \/ \E v \in Vals : RcInsert(v)
    \/ \E v \in Vals : RcFind(v)
    \/ Inorder
    \/ \E n \in Nodes(tree) : ExtBorrow(n)
    \/ \E n \in Nodes(tree) : ExtBorrowMut(n)
    \/ \E n \in Nodes(tree) : ExtDrop(n)

SpecAliased == Init /\ [][NextAliased]_vars

\* The inserts alone, with aliases of the nodes held and borrowed from outside.
NextInsertAliased ==
    \/ \E v \in Vals : BoxInsert(v)
    \/ \E v \in Vals : RcInsert(v)
    \/ \E n \in Nodes(tree) : ExtBorrow(n)
    \/ \E n \in Nodes(tree) : ExtBorrowMut(n)
    \/ \E n \in Nodes(tree) : ExtDrop(n)

SpecInsertAliased == Init /\ [][NextInsertAliased]_vars

\* An alias of a node outside the tree takes a shared borrow of it while no
\* other borrow is outstanding.
ExtBorrowAlone(n) ==
    /\ \A m \in DOMAIN flag : flag[m] = 0
    /\ ExtBorrow(n)

\* The Rc<RefCell> program with one alias of a node that takes shared
\* borrows only.
NextShared ==
    \/ \E v \in Vals : RcInsert(v)
    \/ \E v \in Vals : RcFind(v)
    \/ Inorder
    \/ \E n \in Nodes(tree) : ExtBorrowAlone(n)
    \/ \E n \in Nodes(tree) : ExtDrop(n)

SpecShared == Init /\ [][NextShared]_vars

----------------------------------------------------------------------------
\* What the claims speak of.

\* The values in the subtree rooted at child slot content n (none under None).
RECURSIVE SubtreeVals(_, _)
SubtreeVals(t, n) ==
    IF n = None THEN {}
    ELSE {t[n].val} \cup SubtreeVals(t, t[n].left) \cup SubtreeVals(t, t[n].right)

\* The values passed to TreeNode::new for the root and to the inserts that returned.
Inserted == {tree[1].val} \cup {calls[i] : i \in DOMAIN calls}

NoBorrows(f) == \A n \in DOMAIN f : f[n] = 0

IsSorted(s) == \A i, j \in DOMAIN s : i < j => s[i] <= s[j]

\* How often k occurs in the sequence s.
CountIn(s, k) == Cardinality({i \in DOMAIN s : s[i] = k})

----------------------------------------------------------------------------
C2_InsertNeverFaults ==
    [][\A v \in Vals :
         (RcInsert(v) /\ NoBorrows(flag)) =>
             (~panicked' /\ last'.mutSeen = <<0>>)]_vars

\* C3: every completed inorder run of a tree built by inserts printed its
\* values in non-decreasing order.
C3_InorderSorted == \A i \in DOMAIN outs : IsSorted(outs[i])

\* A run over a full tree with nodes on both sides of the root.
C3_Witness ==
    /\ outs # <<>>
    /\ Len(outs[1]) >= 4
    /\ tree[1].left # None
    /\ tree[1].right # None

\* The flags of a tree on whose cells no borrow is outstanding.
Unborrowed(t) == IF stage = 6 THEN [n \in Nodes(t) |-> 0] ELSE <<>>

\* find(val) on tree t of the program run, called with no borrow outstanding.
Present(t, val) ==
    IF stage = 3 THEN Stage3_find(t, 1, val)
    ELSE Stage6_find(t, Unborrowed(t), 1, val).ret

\* The root's value and the values of the inserts that returned, in call order.
History == <<tree[1].val>> \o calls

\* An insert call that returned.
InsertReturns(v) == (BoxInsert(v) \/ RcInsert(v)) /\ ~panicked'

C5_FindInserted ==
    (last.op = "find" /\ ~panicked /\ last.arg \in Inserted) => last.ret

\* find returned true for the value of the first insert, not the root's,
\* after a further insert.
C5_Witness ==
    /\ last.op = "find"
    /\ last.ret
    /\ Len(calls) >= 2
    /\ last.arg = calls[1]
    /\ last.arg # tree[1].val

\* C6: find of a value that was never inserted (and is not the root's)
\* returns false.
C6_FindAbsent ==
    (last.op = "find" /\ ~panicked /\ last.arg \notin Inserted) => ~last.ret

\* find returned false on a tree of three nodes or more.
C6_Witness ==
    /\ last.op = "find"
    /\ ~panicked
    /\ ~last.ret
    /\ last.arg \notin Inserted
    /\ Len(tree) >= 3

IsAscending(s) == \A i, j \in DOMAIN s : i < j => s[i] < s[j]

----------------------------------------------------------------------------
\* The recursion of find, insert and inorder, call by call.  `fuel` is the
\* number of calls still allowed: a recursion that would go on when none is
\* left is cut, and marked as cut.

\* A recursion cut for want of fuel.
Cut == -1

\* FindPath that recurses on the node it is at instead of its child.
RECURSIVE FindPathSelf(_, _, _, _)
FindPathSelf(t, n, val, fuel) ==
    IF fuel = 0 THEN <<Cut>>
    ELSE IF val = t[n].val \/ t[n][Side(t, n, val)] = None THEN <<n>>
    ELSE <<n>> \o FindPathSelf(t, n, val, fuel - 1)

\* The nodes find is called on, in call order, from node n down.
RECURSIVE FindPath(_, _, _, _)
FindPath(t, n, val, fuel) ==
    IF fuel = 0 THEN <<Cut>>
    ELSE IF val = t[n].val \/ t[n][Side(t, n, val)] = None THEN <<n>>
    ELSE <<n>> \o FindPath(t, t[n][Side(t, n, val)], val, fuel - 1)

\* InsertPath that ends on a node holding the value, as find does.
RECURSIVE InsertPathStop(_, _, _, _)
InsertPathStop(t, n, val, fuel) ==
    IF fuel = 0 THEN <<Cut>>
    ELSE IF val = t[n].val \/ t[n][Side(t, n, val)] = None THEN <<n>>
    ELSE <<n>> \o InsertPathStop(t, t[n][Side(t, n, val)], val, fuel - 1)

\* The nodes insert is called on, in call order, from node n down: the last
\* one is the node whose child slot it finds None.
RECURSIVE InsertPath(_, _, _, _)
InsertPath(t, n, val, fuel) ==
    IF fuel = 0 THEN <<Cut>>
    ELSE IF t[n][Side(t, n, val)] = None THEN <<n>>
    ELSE <<n>> \o InsertPath(t, t[n][Side(t, n, val)], val, fuel - 1)

\* The fuel left once inorder has run on child slot content n, one unit a
\* call (on a node or on None).
RECURSIVE InorderFuel(_, _, _)
InorderFuel(t, n, fuel) ==
    IF fuel <= 0 THEN Cut
    ELSE IF n = None THEN fuel - 1
    ELSE LET l == InorderFuel(t, t[n].left, fuel - 1)
         IN  IF l = Cut THEN Cut ELSE InorderFuel(t, t[n].right, l)

----------------------------------------------------------------------------
\* The nodes in the child slots of node n.
Children(t, n) == {t[n].left, t[n].right} \ {None}

\* The nodes in the child slots of the nodes of S.
ChildrenOf(t, S) == UNION {Children(t, n) : n \in S}

\* The nodes reached from those of S in one to k steps down.
RECURSIVE Below(_, _, _)
Below(t, S, k) ==
    IF k = 0 THEN {}
    ELSE ChildrenOf(t, S) \cup Below(t, ChildrenOf(t, S), k - 1)

\* The descendants of node n (a node has fewer than Len(t) ancestors).
Descendants(t, n) == Below(t, {n}, Len(t))

\* The nodes reachable from the root, the root among them.
Reachable(t) == {1} \cup Descendants(t, 1)

\* The number of nodes on the longest way down from child slot content n.
RECURSIVE Depth(_, _)
Depth(t, n) ==
    IF n = None THEN 0
    ELSE LET l == Depth(t, t[n].left)
             r == Depth(t, t[n].right)
         IN  1 + (IF l >= r THEN l ELSE r)

\* The descent p ended by itself, took no more calls than the tree is deep,
\* and each call was on a child of the node of the call before, whose
\* subtree is less deep.
IsDescent(t, p) ==
    /\ p[Len(p)] # Cut
    /\ Len(p) <= Depth(t, 1)
    /\ \A i \in 1..(Len(p) - 1) :
          /\ p[i + 1] \in Children(t, p[i])
          /\ Depth(t, p[i + 1]) < Depth(t, p[i])

\* C11: on every tree built by inserts, find and insert of every value end
\* after at most depth-many calls, each on a child of the node before, and
\* inorder ends after one call per node and per absent child slot.
C11_Terminates ==
    /\ \A v \in Vals :
          /\ IsDescent(tree, FindPath(tree, 1, v, Len(tree)))
          /\ IsDescent(tree, InsertPath(tree, 1, v, Len(tree)))
    /\ InorderFuel(tree, 1, 2 * Len(tree) + 1) = 0

\* A find that went three nodes down to its answer.
C11_Witness ==
    /\ last.op = "find"
    /\ ~panicked
    /\ Len(FindPath(tree, 1, last.arg, Len(tree))) >= 3

\* C12: after any sequence of inserts no node is its own descendant.
C12_Acyclic == \A n \in Nodes(tree) : n \notin Descendants(tree, n)

\* A shared tree three nodes deep.
C12_Witness ==
    /\ stage = 6
    /\ \E m, n \in Nodes(tree) : n \in Children(tree, m) /\ m \in Children(tree, 1)

Sides == {"left", "right"}

\* The node insert(v) ends its descent on, and the slot of it v belongs in.
AttachNode(t, v) == LET p == InsertPath(t, 1, v, Len(t)) IN p[Len(p)]

\* C13: an insert call adds at most one node; a node it adds is a leaf
\* holding the value, set in the None slot its descent ended on and in no
\* other; every node there was keeps its value and every child link that was
\* not None.
C13_InsertFrame ==
    [][\A v \in Vals :
         (BoxInsert(v) \/ RcInsert(v)) =>
             /\ Len(tree') \in {Len(tree), Len(tree) + 1}
             /\ \A n \in Nodes(tree) :
                   /\ tree'[n].val = tree[n].val
                   /\ \A sd \in Sides :
                         tree[n][sd] # None => tree'[n][sd] = tree[n][sd]
             /\ Len(tree') = Len(tree) => tree' = tree
             /\ Len(tree') = Len(tree) + 1 =>
                   LET a == AttachNode(tree, v)
                       sa == Side(tree, a, v)
                   IN  /\ tree'[Len(tree')] = new(v)
                       /\ tree[a][sa] = None
                       /\ tree'[a][sa] = Len(tree')
                       /\ \A n \in Nodes(tree) : \A sd \in Sides :
                             (n # a \/ sd # sa) => tree'[n][sd] = tree[n][sd]]_vars

\* An insert that descended below the root before it attached its node.
C13_Witness ==
    /\ last.op = "insert"
    /\ ~panicked
    /\ Len(tree) >= 3
    /\ Len(tree) \notin Children(tree, 1)
    /\ Len(tree) \in Descendants(tree, 1)

\* C14: an insert whose descent comes to a node that an external alias holds
\* mutably borrowed panics, and leaves the tree as it was.
C14_SecondMutFaults ==
    [][\A v \in Vals :
         (/\ RcInsert(v)
          /\ LET p == InsertPath(tree, 1, v, Len(tree))
             IN  \E i \in DOMAIN p : flag[p[i]] = -1) =>
             (panicked' /\ tree' = tree)]_vars

\* An insert of an edition-2024 build panicked with a node below the root
\* mutably borrowed outside.
C14_Witness ==
    /\ stage = 6
    /\ edition = 2024
    /\ panicked
    /\ last.op = "insert"
    /\ \E n \in Nodes(tree) : n # 1 /\ flag[n] = -1

C16_ReachableGrows ==
    [][/\ Reachable(tree) \subseteq Reachable(tree')
       /\ Reachable(tree) \subseteq Nodes(tree')]_vars

\* All of four nodes or more are reachable, an insert having added the last.
C16_Witness ==
    /\ Len(tree) >= 4
    /\ Reachable(tree) = Nodes(tree)
    /\ last.op = "insert"

C19_RightSpine ==
    IsAscending(History) =>
        /\ \A n \in Nodes(tree) : tree[n].left = None
        /\ Depth(tree, 1) = Len(tree)
        /\ \A i \in DOMAIN outs : outs[i] = History

\* inorder has run over the spine of 1, 2, 3.
C19_Witness ==
    /\ Len(History) >= 3
    /\ \A i \in DOMAIN History : History[i] = i
    /\ outs # <<>>

\* The child slots that hold node n.
SlotsOf(t, n) == {ps \in Nodes(t) \X Sides : t[ps[1]][ps[2]] = n}

\* Every node but the root is in exactly one child slot, the root in none.
SingleOwner(t) ==
    \A n \in Nodes(t) : Cardinality(SlotsOf(t, n)) = IF n = 1 THEN 0 ELSE 1

\* C20: in every tree the Box program builds, every node but the root is in
\* exactly one child slot of one parent and the root is in none.
C20_SingleOwner == stage = 3 => SingleOwner(tree)

\* A Box tree of four nodes or more, one of them with two children.
C20_Witness ==
    /\ stage = 3
    /\ Len(tree) >= 4
    /\ \E n \in Nodes(tree) : tree[n].left # None /\ tree[n].right # None

----------------------------------------------------------------------------
\* p is q, or q cut short.
IsPrefix(p, q) == Len(p) <= Len(q) /\ \A i \in DOMAIN p : p[i] = q[i]

\* The last element of the non-empty sequence p.
Last(p) == p[Len(p)]

\* The tree insert(val) leaves when called on the root of t with no borrow
\* outstanding; t itself when the call panicked.
Inserting(t, val) ==
    IF stage = 3 THEN Stage3_insert(t, 1, val)
    ELSE Stage6_insert(t, Unborrowed(t), 1, val, edition).tree

\* insert(val) called on the root of t with no borrow outstanding panics.
InsertPanics(t, val) ==
    stage = 6 /\ Stage6_insert(t, Unborrowed(t), 1, val, edition).panicked

C22_BoxRcEquivalent ==
    [][\A v \in Vals :
         RcInsert(v) =>
             /\ ~panicked'
             /\ tree' = Stage3_insert(tree, 1, v)
             /\ \A k \in Vals :
                   LET r == Stage6_find(tree', flag', 1, k)
                   IN  ~r.panicked /\ r.ret = Stage3_find(tree', 1, k)]_vars

\* The nodes of the subtree in child slot content c (none under None).
Under(t, c) == IF c = None THEN {} ELSE {c} \cup Descendants(t, c)

\* C23: in every tree the inserts build, every node below a node N's left
\* slot holds a value strictly less than N's, every node below N's right
\* slot a value greater than or equal to N's, and a node below N holding
\* N's own value is in N's right subtree.
C23_WeakOrder ==
    \A n \in Nodes(tree) :
        /\ \A m \in Under(tree, tree[n].left) : tree[m].val < tree[n].val
        /\ \A m \in Under(tree, tree[n].right) : tree[m].val >= tree[n].val
        /\ \A m \in Descendants(tree, n) :
              tree[m].val = tree[n].val => m \in Under(tree, tree[n].right)

\* A node has its own value again in its right subtree, below a node of a
\* greater value, and a lesser value on its left.
C23_Witness ==
    \E n, m \in Nodes(tree) :
        /\ tree[n].left # None
        /\ m \in Under(tree, tree[n].right)
        /\ m \notin Children(tree, n)
        /\ tree[m].val = tree[n].val

\* C24: in the Box program every insert call adds exactly one node, whether
\* or not its value is in the tree already: after the root is created and n
\* insert calls are made, n + 1 nodes exist and all are in the tree.
C24_BoxAddsOne ==
    [][\A v \in Vals :
         BoxInsert(v) =>
             /\ Len(tree') = Len(tree) + 1
             /\ Len(tree') = Len(calls') + 1
             /\ Cardinality(Reachable(tree')) = Len(calls') + 1]_vars

\* Three Box inserts have been made, the last of a value in the tree already.
C24_Witness ==
    /\ stage = 3
    /\ last.op = "insert"
    /\ Len(calls) >= 3
    /\ \E n \in Nodes(tree) : n # Len(tree) /\ tree[n].val = last.arg

\* The tree after insert calls of the values of s, in order, on the root of t.
RECURSIVE Replay(_, _)
Replay(t, s) ==
    IF s = <<>> THEN t ELSE Replay(Inserting(t, Head(s)), Tail(s))

\* The tree of the insertion sequence s: TreeNode::new of its first value,
\* then an insert call for each of the others.
BuiltFrom(s) == Replay(<<new(Head(s))>>, Tail(s))

\* What an inorder run prints of tree t with no borrow outstanding.
Printed(t) == Stage7_inorder(t, Unborrowed(t), 1, <<>>).out

\* The sequences that are s in some order.
Permuted(s) == {[i \in DOMAIN s |-> s[f[i]]] : f \in Permutations(DOMAIN s)}

\* C25: what a completed inorder run printed is what inorder prints of the
\* tree of any insertion sequence that is a permutation of the one that
\* built this tree: the output depends on which values were inserted and how
\* often, not on their order nor on the shape of the tree.
C25_OrderIrrelevant ==
    outs # <<>> =>
        /\ BuiltFrom(History) = tree
        /\ \A i \in DOMAIN outs :
              \A p \in Permuted(History) : Printed(BuiltFrom(p)) = outs[i]

\* inorder has run over a tree of three nodes or more that another order of
\* the same values builds to a different depth.
C25_Witness ==
    /\ outs # <<>>
    /\ Len(tree) >= 3
    /\ \E p \in Permuted(History) : Depth(BuiltFrom(p), 1) # Depth(tree, 1)

\* C26: on every tree built by inserts, find reports a value present exactly
\* when a completed inorder run of that tree printed it: for every value asked
\* of the tree, and for the find call last made after a run.
C26_FindAgreesInorder ==
    /\ \A i \in DOMAIN outs : \A k \in Vals :
          Present(tree, k) <=> CountIn(outs[i], k) > 0
    /\ (last.op = "find" /\ ~panicked /\ outs # <<>>) =>
          (last.ret <=> CountIn(outs[Len(outs)], last.arg) > 0)

\* After an inorder run of a tree of three nodes or more, find returned true
\* for a value held below the root's children, and another value was not
\* printed.
C26_Witness ==
    /\ outs # <<>>
    /\ Len(tree) >= 3
    /\ last.op = "find"
    /\ last.ret
    /\ Len(FindPath(tree, 1, last.arg, Len(tree))) >= 3
    /\ \E k \in Vals : CountIn(outs[1], k) = 0

\* An insert, find or inorder call of the Rc<RefCell> program that returned.
RcCallReturns ==
    /\ ~panicked'
    /\ \/ \E v \in Vals : RcInsert(v) \/ RcFind(v)
       \/ Inorder

\* C27: an insert, find or inorder call of the Rc<RefCell> program that
\* returns has given back every borrow it took: every node there was has the
\* borrow flag it had before the call, a node the call added is unborrowed,
\* and with no borrow outstanding before the call none is outstanding after.
C27_BorrowsReleased ==
    [][RcCallReturns =>
         /\ Len(flag') = Len(tree')
         /\ \A n \in Nodes(tree) : flag'[n] = flag[n]
         /\ \A n \in Nodes(tree') \ Nodes(tree) : flag'[n] = 0
         /\ NoBorrows(flag) => NoBorrows(flag')]_vars

\* Inserts, then an inorder run, then a find have returned on a shared tree
\* of three nodes or more, and no borrow is outstanding.
C27_Witness ==
    /\ stage = 6
    /\ ~panicked
    /\ Len(tree) >= 3
    /\ outs # <<>>
    /\ last.op = "find"
    /\ NoBorrows(flag)

\* A node is borrowed shared by an alias outside, and none mutably.
SharedOutside(f) ==
    /\ \A n \in DOMAIN f : f[n] >= 0
    /\ \E n \in DOMAIN f : f[n] > 0

\* C28: with shared borrows of nodes held by aliases outside, a find call
\* returns, true exactly for a value in the tree, and an inorder run
\* completes and prints what it prints of the unborrowed tree, both leaving
\* the outside borrows as they are; an insert call whose descent ends on a
\* node borrowed shared outside panics and leaves the tree as it was.
C28_SharedReadsOnly ==
    [][SharedOutside(flag) =>
         /\ \A v \in Vals :
               RcFind(v) =>
                   /\ ~panicked'
                   /\ last'.ret <=> v \in SubtreeVals(tree, 1)
                   /\ flag' = flag
         /\ Inorder =>
               /\ ~panicked'
               /\ outs'[Len(outs')] = Printed(tree)
               /\ IsSorted(outs'[Len(outs')])
               /\ Len(outs'[Len(outs')]) = Len(tree)
               /\ flag' = flag
         /\ \A v \in Vals :
               (RcInsert(v) /\ flag[AttachNode(tree, v)] > 0) =>
                   (panicked' /\ tree' = tree)]_vars

\* An insert of an edition-2024 build panicked at borrow_mut() on a node
\* below the root that an alias outside holds a shared borrow of.
C28_Witness ==
    /\ stage = 6
    /\ edition = 2024
    /\ panicked
    /\ last.op = "insert"
    /\ last.mutSeen = <<1>>
    /\ AttachNode(tree, last.arg) # 1
    /\ flag[AttachNode(tree, last.arg)] = 1

====
